---- MODULE Spec2Model ----
(***************************************************************************)
(* RouteMaster: class Map (src/code.cpp).  An undirected weighted graph    *)
(* kept as one adjacency list per location, and Map::dijkstra, the         *)
(* set-based shortest-path query that prints the distance and the path.    *)
(*                                                                         *)
(* Every value of type int is a 32-bit signed integer; INT_MAX is the      *)
(* "infinity" sentinel of the distance array.                              *)
(***************************************************************************)
EXTENDS Integers, Sequences, FiniteSets, TLC

\* ---------------------------------------------------------------- bounds
MaxL == 3
MaxCalls == 3
MaxW == 1
MaxAnyCalls == 2

\* ------------------------------------------------------------- constants
INT_MAX == 2147483647
INT_MIN == -INT_MAX - 1
NoParent == -1
MainL == 9

VARIABLES
    L,       \* Map::L, the number of locations
    adj,     \* Map::adj, adj[x] is the neighbor list of x: a sequence of <<v, Distance>>
    calls,   \* the addDist calls the caller has made, in order (kept by the callers that need it)
    pc,      \* where the program is: "idle" (in the caller), "loop", "for", "done", "crashed"
    src,     \* dijkstra's parameter src
    dest,    \* dijkstra's parameter dest
    st,      \* dijkstra's local st: set of <<distance, location>>
    dist,    \* dijkstra's local dist
    parent,  \* dijkstra's local parent
    u,       \* the location extracted in the current iteration of the while loop
    i,       \* position of the range-for in adj[u] (1-based)
    out      \* what the current query has printed: a sequence of reports

vars == <<L, adj, calls, pc, src, dest, st, dist, parent, u, i, out>>
locals == <<src, dest, st, dist, parent, u, i, out>>

Loc == 0 .. (L - 1)
InRange(x) == 0 <= x /\ x < L

NoLocals ==
    /\ src = -1 /\ dest = -1 /\ st = {} /\ dist = <<>> /\ parent = <<>>
    /\ u = -1 /\ i = 0 /\ out = <<>>

\* ------------------------------------------------------------ Map::Map
MapCtor(n) ==
    /\ L = n
    /\ adj = [x \in 0 .. (n - 1) |-> <<>>]

\* ---------------------------------------------------------- Map::addDist
PushOne(a, x, y, w) == [a EXCEPT ![x] = Append(a[x], <<y, w>>)]

\* bug: the connection is stored in one direction only
PushBothOneWay(a, x, y, w) == PushOne(a, x, y, w)

PushBoth(a, x, y, w) == PushOne(PushOne(a, x, y, w), y, x, w)

\* Both indices inside the array: the two push_back calls are defined.
AddDist(x, y, w) ==
    /\ pc = "idle"
    /\ InRange(x) /\ InRange(y)
    /\ adj' = PushBoth(adj, x, y, w)
    /\ UNCHANGED <<L, pc, locals>>

\* An index outside [0, L): adj[x] is an out-of-bounds access of the array
\* allocated with new[], undefined behaviour.  The outcomes modelled are the
\* process dying at the access, and the access landing in memory that is not
\* one of the L lists (nothing visible happens and execution goes on).  A
\* push_back on an index that is in range is carried out as written.
AddDistOutOfRange(x, y, w) ==
    /\ pc = "idle"
    /\ ~(InRange(x) /\ InRange(y))
    /\ \/ /\ InRange(x)                      \* line 30 done, line 31 out of bounds
          /\ adj' = PushOne(adj, x, y, w)
          /\ pc' \in {"crashed", "idle"}
       \/ /\ ~InRange(x)                     \* line 30 out of bounds: dies
          /\ adj' = adj
          /\ pc' = "crashed"
       \/ /\ ~InRange(x) /\ InRange(y)       \* line 30 goes unnoticed, line 31 done
          /\ adj' = PushOne(adj, y, x, w)
          /\ pc' = "idle"
       \/ /\ ~InRange(x) /\ ~InRange(y)      \* line 30 goes unnoticed, line 31 out of bounds
          /\ adj' = adj
          /\ pc' \in {"crashed", "idle"}
    /\ UNCHANGED <<L, locals>>

\* ------------------------------------------------------- 32-bit int sums
Overflows(a, b) ==
    \/ b > 0 /\ a > INT_MAX - b
    \/ b < 0 /\ a < INT_MIN - b

\* a + b reduced modulo 2^32 into [INT_MIN, INT_MAX], without leaving that range
WrapAdd(a, b) ==
    IF b > 0 /\ a > INT_MAX - b THEN (a - INT_MAX - 1) + (b - INT_MAX - 1)
    ELSE IF b < 0 /\ a < INT_MIN - b THEN (a + INT_MAX + 1) + (b + INT_MAX + 1)
    ELSE a + b

\* --------------------------------------------------------- Map::dijkstra
\* lines 51-56
Dijkstra(s, d) ==
    /\ pc = "idle"
    /\ InRange(s) /\ InRange(d)
    /\ src' = s /\ dest' = d
    /\ st' = {<<0, s>>}
    /\ dist' = [[x \in Loc |-> INT_MAX] EXCEPT ![s] = 0]
    /\ parent' = [x \in Loc |-> NoParent]
    /\ u' = -1 /\ i' = 0 /\ out' = <<>>
    /\ pc' = "loop"
    /\ UNCHANGED <<L, adj, calls>>

\* std::set<pair<int,int>> orders its elements by distance, then by location
PairLess(p, q) == p[1] < q[1] \/ (p[1] = q[1] /\ p[2] < q[2])

\* *(st.begin())
Begin(s) == CHOOSE p \in s : \A q \in s : q = p \/ PairLess(p, q)

\* bug: the extracted entry stays in the set
EraseNothing(s, p) == s

\* line 60
Erase(s, p) == s \ {p}

\* lines 58-63: one more iteration of the while loop
Extract ==
    /\ pc = "loop"
    /\ st # {}
    /\ LET p == Begin(st) IN
        /\ st' = Erase(st, p)
        /\ u' = p[2]
        /\ i' = 1
        /\ pc' = IF Len(adj[p[2]]) = 0 THEN "loop" ELSE "for"
    /\ UNCHANGED <<L, adj, calls, src, dest, dist, parent, out>>

\* bug: only a location not seen before is relaxed (the test of the bfs variant)
RelaxableUnseenOnly(dv, sum) == dv = INT_MAX /\ dv > sum

\* bug: >= for >
RelaxableOrEqual(dv, sum) == dv >= sum

\* line 69
Relaxable(dv, sum) == dv > sum

\* bug: the old entry is left in the set
EraseStaleNever(s, dv, v) == s

\* lines 71-73
EraseStale(s, dv, v) == IF dv # INT_MAX THEN s \ {<<dv, v>>} ELSE s

\* bug: the parent is recorded at the first relaxation only
SetParentOnce(p, v, x) == IF p[v] = NoParent THEN [p EXCEPT ![v] = x] ELSE p

\* line 76
SetParent(p, v, x) == [p EXCEPT ![v] = x]

\* lines 66-77 for the neighbor adj[u][i], with sum the value of dist[u] + Distance
Relax(sum) ==
    LET v == adj[u][i][1] IN
    /\ IF Relaxable(dist[v], sum)
       THEN /\ st' = EraseStale(st, dist[v], v) \cup {<<sum, v>>}
            /\ dist' = [dist EXCEPT ![v] = sum]
            /\ parent' = SetParent(parent, v, u)
       ELSE UNCHANGED <<st, dist, parent>>
    /\ i' = i + 1
    /\ pc' = IF i + 1 > Len(adj[u]) THEN "loop" ELSE "for"
    /\ UNCHANGED <<L, adj, calls, src, dest, u, out>>

\* one neighbor of the for loop, dist[u] + Distance representable
Visit ==
    /\ pc = "for"
    /\ ~Overflows(dist[u], adj[u][i][2])
    /\ Relax(dist[u] + adj[u][i][2])

\* dist[u] + Distance overflows int: undefined behaviour.  Outcome of a plain
\* build: the sum wraps around.
VisitOverflowWraps ==
    /\ pc = "for"
    /\ Overflows(dist[u], adj[u][i][2])
    /\ Relax(WrapAdd(dist[u], adj[u][i][2]))

\* Outcome of a build that traps on signed overflow: the process dies.
VisitOverflowTraps ==
    /\ pc = "for"
    /\ Overflows(dist[u], adj[u][i][2])
    /\ pc' = "crashed"
    /\ UNCHANGED <<L, adj, calls, src, dest, st, dist, parent, u, i, out>>

\* ------------------------------ Map::displayPath / Map::printShortestPath
\* The recursion of displayPath ends iff the parent chain from j reaches -1.
RECURSIVE ChainEnds(_, _, _)
ChainEnds(p, j, fuel) ==
    IF p[j] = NoParent THEN TRUE
    ELSE IF fuel = 0 THEN FALSE
    ELSE ChainEnds(p, p[j], fuel - 1)

\* bug: prints before recursing
RECURSIVE DisplayPathBackwards(_, _)
DisplayPathBackwards(p, j) ==
    IF p[j] = NoParent THEN <<>>
    ELSE <<j>> \o DisplayPathBackwards(p, p[j])

\* the locations displayPath prints, in the order it prints them
RECURSIVE DisplayPath(_, _)
DisplayPath(p, j) ==
    IF p[j] = NoParent THEN <<>>
    ELSE Append(DisplayPath(p, p[j]), j)

\* lines 43-48: the length, then src, then displayPath(parent, dest)
Report(s, d, ds, p) == [length |-> ds[d], path |-> <<s>> \o DisplayPath(p, d)]

\* line 82, the loop has ended
PrintShortestPath ==
    /\ pc = "loop"
    /\ st = {}
    /\ ChainEnds(parent, dest, L)
    /\ out' = Append(out, Report(src, dest, dist, parent))
    /\ pc' = "done"
    /\ UNCHANGED <<L, adj, calls, src, dest, st, dist, parent, u, i>>

\* line 82 when the parent chain from dest is a cycle: displayPath recurses
\* without end and the process dies of stack exhaustion.
PrintNeverReturns ==
    /\ pc = "loop"
    /\ st = {}
    /\ ~ChainEnds(parent, dest, L)
    /\ pc' = "crashed"
    /\ UNCHANGED <<L, adj, calls, src, dest, st, dist, parent, u, i, out>>

\* line 83: dijkstra returns, its locals are gone
Return ==
    /\ pc = "done"
    /\ pc' = "idle"
    /\ src' = -1 /\ dest' = -1 /\ st' = {} /\ dist' = <<>> /\ parent' = <<>>
    /\ u' = -1 /\ i' = 0 /\ out' = <<>>
    /\ UNCHANGED <<L, adj, calls>>

Engine ==
    \/ Extract
    \/ Visit
    \/ VisitOverflowWraps
    \/ VisitOverflowTraps
    \/ PrintShortestPath
    \/ PrintNeverReturns
    \/ Return

\* ------------------------------------------------------------- callers
\* Spec: a caller that keeps to the documented preconditions of addDist and
\* dijkstra (indices in range, weights non-negative ints, INT_MAX included)
\* and may query the graph at any time.  It keeps no record of its calls.
Weights == (0 .. MaxW) \cup {INT_MAX}

RECURSIVE Entries(_)
Entries(n) == IF n = 0 THEN 0 ELSE Len(adj[n - 1]) + Entries(n - 1)

\* every addDist call adds two entries
NumConnections == Entries(L) \div 2

Init ==
    /\ \E n \in 1 .. MaxL : MapCtor(n)
    /\ calls = <<>>
    /\ pc = "idle"
    /\ NoLocals

AddConnection ==
    /\ NumConnections < MaxCalls
    /\ \E x \in Loc, y \in Loc, w \in Weights : AddDist(x, y, w)
    /\ UNCHANGED calls

Query == \E s \in Loc, d \in Loc : Dijkstra(s, d)

Next == AddConnection \/ Query \/ Engine

Spec == Init /\ [][Next]_vars

\* FairSpec: once called, dijkstra runs on without being suspended (the
\* program is single-threaded and synchronous); the caller owes nothing.
FairSpec == Spec /\ WF_vars(Engine)

\* SpecAnyArgs: a caller that passes addDist any ints, in range or not,
\* negative or not, and records its calls.
AnyIndex == -1 .. L
AnyWeights == -1 .. MaxW

AnyCall ==
    /\ Len(calls) < MaxAnyCalls
    /\ \E x \in AnyIndex, y \in AnyIndex, w \in AnyWeights :
        /\ AddDist(x, y, w) \/ AddDistOutOfRange(x, y, w)
        /\ calls' = Append(calls, <<x, y, w>>)

NextAnyArgs == AnyCall

SpecAnyArgs == Init /\ [][NextAnyArgs]_vars

\* SpecMain: main().  Nine locations, the fourteen addDist calls in the order
\* of lines 122-135, then queries.  main asks for (0, 8); any pair is let in.
MainEdges ==
    << <<0, 1, 4>>, <<0, 7, 8>>, <<1, 2, 8>>, <<1, 7, 11>>, <<2, 3, 7>>,
       <<2, 8, 2>>, <<2, 5, 4>>, <<3, 4, 9>>, <<3, 5, 14>>, <<4, 5, 10>>,
       <<5, 6, 2>>, <<6, 7, 1>>, <<6, 8, 6>>, <<7, 8, 7>> >>
MainSrc == 0
MainDest == 8

InitMain ==
    /\ MapCtor(MainL)
    /\ calls = <<>>
    /\ pc = "idle"
    /\ NoLocals

MainBuild ==
    /\ Len(calls) < Len(MainEdges)
    /\ LET e == MainEdges[Len(calls) + 1] IN
        /\ AddDist(e[1], e[2], e[3])
        /\ calls' = Append(calls, e)

MainQuery ==
    /\ Len(calls) = Len(MainEdges)
    /\ \E s \in Loc, d \in Loc : Dijkstra(s, d)

\* No sum overflows and no parent chain cycles on this graph: the other
\* steps of Engine are never enabled here.
NextMain == MainBuild \/ MainQuery \/ Extract \/ Visit \/ PrintShortestPath \/ Return

SpecMain == InitMain /\ [][NextMain]_vars

\* ===================================================== reference notions
\* the entries of x's neighbor list
Idx(x) == 1 .. Len(adj[x])

NonNegative == \A x \in Loc : \A k \in Idx(x) : adj[x][k][2] >= 0

\* Sums of non-negative weights as mathematical integers: a sum is kept as
\* the set holding it, and a sum above INT_MAX as the empty set.
Plus(a, b) == IF a > INT_MAX - b THEN {} ELSE {a + b}

PlusAll(A, B) == UNION { Plus(a, b) : a \in A, b \in B }

RECURSIVE ListWeight(_, _)
ListWeight(x, k) == IF k = 0 THEN {0} ELSE PlusAll({adj[x][k][2]}, ListWeight(x, k - 1))

RECURSIVE AdjWeight(_)
AdjWeight(n) ==
    IF n = 0 THEN {0}
    ELSE PlusAll(ListWeight(n - 1, Len(adj[n - 1])), AdjWeight(n - 1))

\* the weights of all neighbor entries together do not exceed INT_MAX
WeightsFit == NonNegative /\ AdjWeight(L) # {}

\* the neighbors of x outside seen, by position in x's list
Onward(x, seen) == { k \in Idx(x) : adj[x][k][1] \notin seen \cup {x} }

\* Exhaustive search over the simple paths from x to d that avoid seen:
\* whether there is one,
RECURSIVE PathExists(_, _, _)
PathExists(x, d, seen) ==
    \/ x = d
    \/ \E k \in Onward(x, seen) : PathExists(adj[x][k][1], d, seen \cup {x})

\* and the weight sums of those whose sum does not exceed INT_MAX.
RECURSIVE PathWeights(_, _, _)
PathWeights(x, d, seen) ==
    IF x = d THEN {0}
    ELSE UNION { PlusAll({adj[x][k][2]}, PathWeights(adj[x][k][1], d, seen \cup {x}))
                 : k \in Onward(x, seen) }

Reachable(s, d) == PathExists(s, d, {})

Least(S) == CHOOSE m \in S : \A n \in S : m <= n

\* the minimum over all simple paths is an int and equals m
IsMinDist(m, s, d) ==
    /\ PathWeights(s, d, {}) # {}
    /\ m = Least(PathWeights(s, d, {}))

\* the weights of the connections joining a and b
EdgeWeights(a, b) == { adj[a][k][2] : k \in { k \in Idx(a) : adj[a][k][1] = b } }

\* the sums (up to INT_MAX) obtained by walking along path q, taking one
\* connection between each two consecutive locations; empty if two
\* consecutive locations are not joined
RECURSIVE WalkWeights(_)
WalkWeights(q) ==
    IF Len(q) <= 1 THEN {0}
    ELSE PlusAll(EdgeWeights(q[1], q[2]), WalkWeights(Tail(q)))

Running == pc \in {"loop", "for"}
Ended == pc = "loop" /\ st = {}
Reported == pc = "done"

\* ================================================================ claims

\* C1 (as stated): for every graph with non-negative weights and every
\* reachable destination, the reported distance is the minimum weight over all
\* simple paths from source to destination.
C1_DistanceIsMinimum_AsStated ==
    (Reported /\ NonNegative /\ Reachable(src, dest))
        => IsMinDist(out[1].length, src, dest)

\* C1 (amended): the same, for graphs whose neighbor-entry weights sum to at
\* most INT_MAX.
C1_DistanceIsMinimum ==
    (Reported /\ WeightsFit /\ Reachable(src, dest))
        => /\ IsMinDist(dist[dest], src, dest)
           /\ out[1].length = dist[dest]

\* a query answered with a two-hop route that beats a direct connection
C1_Witness ==
    /\ Reported /\ WeightsFit /\ Reachable(src, dest)
    /\ Len(out[1].path) = 3
    /\ EdgeWeights(src, dest) # {}
    /\ \A w \in EdgeWeights(src, dest) : out[1].length < w

\* C2 (as stated): for every graph with non-negative weights and every
\* reachable destination, the reported path starts at source, ends at
\* destination, joins consecutive locations by connections of the graph, and
\* the weights of those connections sum to the reported distance.
C2_PathIsValid_AsStated ==
    (Reported /\ NonNegative /\ Reachable(src, dest))
        => LET q == out[1].path IN
           /\ q[1] = src
           /\ q[Len(q)] = dest
           /\ out[1].length \in WalkWeights(q)

\* C2 (amended): the same, for graphs whose neighbor-entry weights sum to at
\* most INT_MAX.
C2_PathIsValid ==
    (Reported /\ WeightsFit /\ Reachable(src, dest))
        => LET q == out[1].path IN
           /\ q[1] = src
           /\ q[Len(q)] = dest
           /\ out[1].length \in WalkWeights(q)

\* a reported route through an intermediate location, found by lowering a
\* distance that a direct connection had set before
C2_Witness ==
    /\ Reported /\ WeightsFit
    /\ Len(out[1].path) = 3
    /\ out[1].path[1] = src /\ out[1].path[3] = dest
    /\ EdgeWeights(src, dest) # {}
    /\ out[1].length \notin EdgeWeights(src, dest)

\* C3: when destination is not reachable, the query reports neither the
\* INT_MAX sentinel as the distance nor a non-empty path.
C3_UnreachableIsExplicit ==
    (Reported /\ NonNegative /\ ~Reachable(src, dest))
        => /\ out[1].length # INT_MAX
           /\ out[1].path = <<>>

\* C4: no neighbor entry of the graph ever has a negative weight (addDist
\* rejects negative weights).
C4_NoNegativeWeight ==
    \A x \in Loc : \A k \in Idx(x) : adj[x][k][2] >= 0

\* the neighbor list of x that the calls cs build, entry by entry
RECURSIVE NeighborsFrom(_, _)
NeighborsFrom(cs, x) ==
    IF cs = <<>> THEN <<>>
    ELSE LET c == cs[Len(cs)]
             before == NeighborsFrom(SubSeq(cs, 1, Len(cs) - 1), x)
             first == IF c[1] = x THEN << <<c[2], c[3]>> >> ELSE <<>>
             second == IF c[2] = x THEN << <<c[1], c[3]>> >> ELSE <<>>
         IN  before \o first \o second

CallInRange(c) == InRange(c[1]) /\ InRange(c[2])
CallValid(c) == CallInRange(c) /\ c[3] >= 0

\* C5: a call of addDist with an index out of range changes no neighbor
\* list: the lists are those built by the in-range calls alone.
C5_OutOfRangeChangesNothing ==
    \A x \in Loc : adj[x] = NeighborsFrom(SelectSeq(calls, CallInRange), x)

Count(q, e) == Cardinality({ k \in 1 .. Len(q) : q[k] = e })

\* C6: after any sequence of valid addDist calls, each neighbor list holds
\* exactly the entries of the calls made, in call order: (v, w) in u's list
\* and (u, w) in v's list for every call (u, v, w), as many of the one as of
\* the other.
C6_Symmetric ==
    (pc = "idle" /\ \A k \in 1 .. Len(calls) : CallValid(calls[k]))
        => /\ \A x \in Loc : adj[x] = NeighborsFrom(calls, x)
           /\ \A k \in 1 .. Len(calls) :
                /\ Count(adj[calls[k][1]], <<calls[k][2], calls[k][3]>>) >= 1
                /\ Count(adj[calls[k][2]], <<calls[k][1], calls[k][3]>>) >= 1
           /\ \A x \in Loc, y \in Loc, w \in AnyWeights :
                x # y => Count(adj[x], <<y, w>>) = Count(adj[y], <<x, w>>)

\* two valid calls that make parallel connections of different weights, the
\* second with the two locations in the other order
C6_Witness ==
    /\ pc = "idle" /\ Len(calls) = 2
    /\ \A k \in 1 .. 2 : CallValid(calls[k])
    /\ calls[1][1] # calls[1][2]
    /\ calls[2][1] = calls[1][2] /\ calls[2][2] = calls[1][1]
    /\ calls[2][3] # calls[1][3]
    /\ Len(adj[calls[1][1]]) = 2 /\ Len(adj[calls[1][2]]) = 2

\* C7 (as stated): for every graph with non-negative weights, a query with
\* source = destination = x ends with Parent[x] = -1 and Distance[x] = 0 and
\* reports distance 0 and the path <<x>>.
C7_TrivialQuery_AsStated ==
    ((Ended \/ Reported) /\ NonNegative /\ src = dest)
        => /\ dist[src] = 0
           /\ parent[src] = NoParent
           /\ Reported => out = << [length |-> 0, path |-> <<src>>] >>

\* C7 (amended): the same, for graphs whose neighbor-entry weights sum to at
\* most INT_MAX; Parent[x] = -1 and Distance[x] = 0 all through the run.
C7_TrivialQuery ==
    ((Running \/ Reported) /\ WeightsFit /\ src = dest)
        => /\ dist[src] = 0
           /\ parent[src] = NoParent
           /\ Reported => out = << [length |-> 0, path |-> <<src>>] >>

\* a reported trivial query on a location with a zero-weight self-loop and a
\* zero-weight connection to another location
C7_Witness ==
    /\ Reported /\ WeightsFit /\ src = dest
    /\ 0 \in EdgeWeights(src, src)
    /\ \E y \in Loc \ {src} : 0 \in EdgeWeights(src, y)

\* C8: on the graph of main, the query (0, 8) reports distance 14 and the
\* path 0 1 2 8.
C8_Reference ==
    (Reported /\ src = MainSrc /\ dest = MainDest)
        => out = << [length |-> 14, path |-> <<0, 1, 2, 8>>] >>

C8_Witness ==
    /\ Reported /\ src = MainSrc /\ dest = MainDest
    /\ \A x \in Loc : adj[x] = NeighborsFrom(MainEdges, x)

\* C9: while the loop runs (non-negative weights), the set holds at most one
\* entry per location, and every entry <<d, v>> has d = dist[v].
C9_NoStaleEntry ==
    (Running /\ NonNegative)
        => /\ \A e \in st : e[1] = dist[e[2]]
           /\ \A e \in st, f \in st : e[2] = f[2] => e = f

\* a neighbor of the source is in the set with a distance below that of every
\* direct connection: its first entry has been replaced
C9_Witness ==
    /\ Running /\ WeightsFit
    /\ \E v \in Loc \ {src} :
        /\ <<dist[v], v>> \in st
        /\ EdgeWeights(src, v) # {}
        /\ \A w \in EdgeWeights(src, v) : dist[v] < w

\* the locations that have left the set
Extracted == { v \in Loc : dist[v] # INT_MAX /\ <<dist[v], v>> \notin st }

\* C10 (as stated): for every graph with non-negative weights the loop ends
\* and the result is then reported, once; no location comes back into the
\* set after it was extracted.
C10_Terminates_AsStated ==
    /\ [](Running /\ NonNegative => <>(Reported /\ Len(out) = 1))
    /\ [][(Running /\ Running' /\ NonNegative) => Extracted \subseteq Extracted']_vars

\* C10 (amended): the same, for graphs whose neighbor-entry weights sum to
\* at most INT_MAX.
C10_Terminates ==
    /\ [](Running /\ WeightsFit => <>(Reported /\ Len(out) = 1))
    /\ [][(Running /\ Running' /\ WeightsFit) => Extracted \subseteq Extracted']_vars

\* a query on a connected triangle has been answered
C10_Witness ==
    /\ Reported /\ WeightsFit /\ Len(out) = 1
    /\ L = 3
    /\ \A x \in Loc : dist[x] # INT_MAX
    /\ NumConnections = 3

====
